---- MODULE Spec2Model ----
(***************************************************************************)
(* Model of the two notebooks of the repository.                           *)
(*                                                                         *)
(*   Approximate Caratheodory worksheet (src/unnamed/part_000):            *)
(*     the cells that build the coefficients, the target x, diam(T) and    *)
(*     the trial loop.  Specification Spec.                                *)
(*                                                                         *)
(*   norm_concentration.ipynb: the class RandomVector (specification       *)
(*     SpecVector) and square_norm_expectation (SpecEstimate).             *)
(*                                                                         *)
(* Numbers.  Reals are modelled exactly on a grid.  A coefficient is an    *)
(* integer number of units 1/Den, so accum = 1.0 is Den.  The points of T  *)
(* have integer coordinates.  x is kept in units 1/Den and a distance in   *)
(* units 1/(Den*k)^2, which is what the code's expressions give when every *)
(* quotient is carried as a numerator over a fixed denominator.            *)
(***************************************************************************)
EXTENDS Integers, Sequences, FiniteSets

VARIABLES
    pc,            \* the cell (or loop) the worksheet is at
    T,             \* the list of points
    m,             \* len(T)
    k,             \* draws per trial
    coefficients,  \* lambda_1..lambda_m, in units 1/Den
    perm,          \* the random permutation of the indices
    accum,         \* the remaining mass, in units 1/Den
    pos,           \* position of the loop "for i in perm[:-1]"
    x,             \* the target, in units 1/Den
    diamT,         \* diam(T), kept as its square (the radicand of np.sqrt)
    numSamples,    \* number of trials
    samples,       \* the recorded distances, in units 1/(Den*k)^2
    bestVal,       \* the best distance so far
    best,          \* the draw that achieved it
    i,             \* the trial loop's counter
    \* norm_concentration.ipynb
    args,          \* the arguments (dim, distribution, mean, variance) of the run
    mArg,          \* the argument m of square_norm_expectation
    vecs,          \* the RandomVector objects constructed so far
    outcome        \* what the last call did and returned

caraVars == << pc, T, m, k, coefficients, perm, accum, pos, x, diamT,
               numSamples, samples, bestVal, best, i >>

normVars == << args, mArg, vecs, outcome >>

vars == << caraVars, normVars >>

\* ------------------------------------------------------------------ bounds

\* Resolution of the weights: np.random.uniform(0, accum) returns a multiple
\* of 1/Den.
Den == 3
\* The largest number of points of T.
MaxM == 3
\* The largest k (draws per trial).
MaxK == 2
\* The largest numSamples (trials).
MaxSamples == 2

\* The dimension the worksheet works in.
n == 3

\* The points T is made of: the origin and unit vectors as in the worksheet,
\* and one point more on the first axis, so that three points can be collinear.
Points == << <<0, 0, 0>>, <<1, 0, 0>>, <<0, 1, 0>>, <<2, 0, 0>> >>

\* The lists T the worksheet is run on: 1..MaxM distinct points, in the order
\* of Points.
TInputs ==
    UNION { { [j \in 1..mm |-> Points[f[j]]] :
                f \in { g \in [1..mm -> 1..Len(Points)] :
                          \A a, b \in 1..mm : a < b => g[a] < g[b] } } :
            mm \in 1..MaxM }

\* ------------------------------------------------------------ arithmetic

RECURSIVE SumSeq(_)
SumSeq(s) == IF s = << >> THEN 0 ELSE Head(s) + SumSeq(Tail(s))

\* np.zeros(len)
Zeros(len) == [j \in 1..len |-> 0]

\* a + b and c * a on arrays
VecAdd(a, b) == [j \in 1..Len(a) |-> a[j] + b[j]]
VecScale(c, a) == [j \in 1..Len(a) |-> c * a[j]]

\* np.sum(a**2)
SumSquares(a) == SumSeq([j \in 1..Len(a) |-> a[j] * a[j]])

Min(S) == CHOOSE v \in S : \A w \in S : v <= w
Max(S) == CHOOSE v \in S : \A w \in S : v >= w

\* float("inf"), a finite float, and the comparison sample < bestVal
Inf == [inf |-> TRUE, val |-> 0]
Fin(v) == [inf |-> FALSE, val |-> v]
Less(s, b) == b.inf \/ s < b.val

\* None
None == << >>

\* ------------------------------------------------- stick-breaking cell

\* np.random.permutation(m): the permutations of the indices
Permutations(mm) ==
    { p \in [1..mm -> 1..mm] : \A a, b \in 1..mm : a # b => p[a] # p[b] }

\* np.random.uniform(0, 1) in place of np.random.uniform(0, accum)
UniformUnit(high) == 0..Den

\* np.random.uniform(0, high): a value of the grid in [0, high]
Uniform(high) == 0..high

\* coefficients = [0]*m ; perm = np.random.permutation(m) ; accum = 1.0
CoeffInit ==
    /\ pc = "coefficients"
    /\ coefficients' = [j \in 1..m |-> 0]
    /\ perm' \in Permutations(m)
    /\ accum' = Den
    /\ pos' = 1
    /\ pc' = "stick"
    /\ UNCHANGED << T, m, k, x, diamT, numSamples, samples, bestVal, best, i >>
    /\ UNCHANGED normVars

\* CoeffStep without "accum = accum - coefficients[i]"
CoeffStepKeepsAccum ==
    /\ pc = "stick"
    /\ pos < m
    /\ \E c \in Uniform(accum) :
         coefficients' = [coefficients EXCEPT ![perm[pos]] = c]
    /\ pos' = pos + 1
    /\ UNCHANGED << pc, T, m, k, perm, accum, x, diamT, numSamples, samples,
                    bestVal, best, i >>
    /\ UNCHANGED normVars

\* one iteration of "for i in perm[:-1]"
CoeffStep ==
    /\ pc = "stick"
    /\ pos < m
    /\ \E c \in Uniform(accum) :
         /\ coefficients' = [coefficients EXCEPT ![perm[pos]] = c]
         /\ accum' = accum - c
    /\ pos' = pos + 1
    /\ UNCHANGED << pc, T, m, k, perm, x, diamT, numSamples, samples, bestVal,
                    best, i >>
    /\ UNCHANGED normVars

\* coefficients[perm[-1]] = accum
CoeffLast ==
    /\ pc = "stick"
    /\ pos = m
    /\ coefficients' = [coefficients EXCEPT ![perm[m]] = accum]
    /\ pc' = "x"
    /\ UNCHANGED << T, m, k, perm, accum, pos, x, diamT, numSamples, samples,
                    bestVal, best, i >>
    /\ UNCHANGED normVars

\* ------------------------------------------------------- target cell

\* XLoop with "for i in range(1, m)" in place of "for i in range(m)"
RECURSIVE XLoopSkipsFirst(_, _, _, _)
XLoopSkipsFirst(acc, coef, pts, j) ==
    IF j > Len(pts) THEN acc
    ELSE XLoopSkipsFirst(IF j = 1 THEN acc
                         ELSE VecAdd(acc, VecScale(coef[j], pts[j])),
                         coef, pts, j + 1)

\* x = np.zeros(n); for i in range(m): x = x + coefficients[i] * T[i]
RECURSIVE XLoop(_, _, _, _)
XLoop(acc, coef, pts, j) ==
    IF j > Len(pts) THEN acc
    ELSE XLoop(VecAdd(acc, VecScale(coef[j], pts[j])), coef, pts, j + 1)

ConstructX ==
    /\ pc = "x"
    /\ x' = XLoop(Zeros(n), coefficients, T, 1)
    /\ pc' = "diam"
    /\ UNCHANGED << T, m, k, coefficients, perm, accum, pos, diamT, numSamples,
                    samples, bestVal, best, i >>
    /\ UNCHANGED normVars

\* ------------------------------------------------------- diam(T) cell

\* the double loop over i < j with the running maximum, from diamT = 0;
\* np.sqrt is increasing, so the maximum is taken on the radicands
DiamLoop(pts) ==
    Max({0} \cup { SumSquares(VecAdd(pts[q[1]], VecScale(-1, pts[q[2]]))) :
                     q \in { r \in (1..Len(pts)) \X (1..Len(pts)) : r[1] < r[2] } })

ComputeDiam ==
    /\ pc = "diam"
    /\ diamT' = DiamLoop(T)
    /\ pc' = "trials_init"
    /\ UNCHANGED << T, m, k, coefficients, perm, accum, pos, x, numSamples,
                    samples, bestVal, best, i >>
    /\ UNCHANGED normVars

\* ------------------------------------------------------- trial loop

\* rand.choices(population, weights = weights, k = kk): kk entries of the
\* population, each drawn with probability proportional to its weight, so an
\* entry of weight 0 is never drawn
Support(weights) == { j \in 1..Len(weights) : weights[j] > 0 }
ChoiceIndices(weights, kk) == [1..kk -> Support(weights)]
Choices(population, weights, kk) ==
    { [j \in 1..kk |-> population[f[j]]] : f \in ChoiceIndices(weights, kk) }

\* vec_sum = np.zeros(len(T[0])); for vec in vectors: vec_sum = vec_sum + vec
RECURSIVE VecSum(_)
VecSum(vectors) ==
    IF vectors = << >> THEN Zeros(Len(T[1]))
    ELSE VecAdd(VecSum(Tail(vectors)), Head(vectors))

\* Distance with vec_sum in place of vec_sum/k
DistanceOfSum(vectors) ==
    SumSquares(VecAdd(VecScale(k, x), VecScale(-Den * k, VecSum(vectors))))

\* Distance with np.abs(...) in place of (...)**2
DistanceAbs(vectors) ==
    LET d == VecAdd(VecScale(k, x), VecScale(-Den, VecSum(vectors)))
    IN  SumSeq([j \in 1..Len(d) |-> IF d[j] < 0 THEN -d[j] ELSE d[j]])

\* np.sum((x - vec_sum/k)**2), in units 1/(Den*k)^2:
\* x - vec_sum/k = (k*X - Den*vec_sum) / (Den*k) with X = Den*x the stored x
Distance(vectors) ==
    SumSquares(VecAdd(VecScale(k, x), VecScale(-Den, VecSum(vectors))))

\* numSamples = ... ; samples = [] ; bestVal = float("inf") ; best = None
TrialInit ==
    /\ pc = "trials_init"
    /\ numSamples' \in 1..MaxSamples
    /\ samples' = << >>
    /\ bestVal' = Inf
    /\ best' = None
    /\ i' = 0
    /\ pc' = "trials"
    /\ UNCHANGED << T, m, k, coefficients, perm, accum, pos, x, diamT >>
    /\ UNCHANGED normVars

\* Trial with "sample > bestVal" in place of "sample < bestVal"
TrialKeepsLargest ==
    /\ pc = "trials"
    /\ i < numSamples
    /\ \E vectors \in Choices(T, coefficients, k) :
         \E sample \in { Distance(vectors) } :
         /\ IF bestVal.inf \/ sample > bestVal.val
            THEN best' = vectors /\ bestVal' = Fin(sample)
            ELSE UNCHANGED << best, bestVal >>
         /\ samples' = Append(samples, sample)
    /\ i' = i + 1
    /\ UNCHANGED << pc, T, m, k, coefficients, perm, accum, pos, x, diamT,
                    numSamples >>
    /\ UNCHANGED normVars

\* Trial with "samples.append(sample)" inside the if
TrialRecordsImprovementsOnly ==
    /\ pc = "trials"
    /\ i < numSamples
    /\ \E vectors \in Choices(T, coefficients, k) :
         \E sample \in { Distance(vectors) } :
         IF Less(sample, bestVal)
         THEN /\ best' = vectors
              /\ bestVal' = Fin(sample)
              /\ samples' = Append(samples, sample)
         ELSE UNCHANGED << best, bestVal, samples >>
    /\ i' = i + 1
    /\ UNCHANGED << pc, T, m, k, coefficients, perm, accum, pos, x, diamT,
                    numSamples >>
    /\ UNCHANGED normVars

\* Trial with the sum accumulated in x ("vec_sum = x" in place of
\* "vec_sum = np.zeros(len(T[0]))", so that "vec_sum = vec_sum + vec" is
\* written back to x)
TrialAccumulatesInX ==
    /\ pc = "trials"
    /\ i < numSamples
    /\ \E vectors \in Choices(T, coefficients, k) :
         \E sample \in { Distance(vectors) } :
         /\ IF Less(sample, bestVal)
            THEN best' = vectors /\ bestVal' = Fin(sample)
            ELSE UNCHANGED << best, bestVal >>
         /\ samples' = Append(samples, sample)
         /\ x' = VecAdd(x, VecScale(Den, VecSum(vectors)))
    /\ i' = i + 1
    /\ UNCHANGED << pc, T, m, k, coefficients, perm, accum, pos, diamT,
                    numSamples >>
    /\ UNCHANGED normVars

\* Trial with "sample <= bestVal" in place of "sample < bestVal"
TrialReplacesOnTie ==
    /\ pc = "trials"
    /\ i < numSamples
    /\ \E vectors \in Choices(T, coefficients, k) :
         \E sample \in { Distance(vectors) } :
         /\ IF bestVal.inf \/ sample <= bestVal.val
            THEN best' = vectors /\ bestVal' = Fin(sample)
            ELSE UNCHANGED << best, bestVal >>
         /\ samples' = Append(samples, sample)
    /\ i' = i + 1
    /\ UNCHANGED << pc, T, m, k, coefficients, perm, accum, pos, x, diamT,
                    numSamples >>
    /\ UNCHANGED normVars

\* one iteration of "for i in range(numSamples)"
Trial ==
    /\ pc = "trials"
    /\ i < numSamples
    /\ \E vectors \in Choices(T, coefficients, k) :
         \E sample \in { Distance(vectors) } :
         /\ IF Less(sample, bestVal)
            THEN best' = vectors /\ bestVal' = Fin(sample)
            ELSE UNCHANGED << best, bestVal >>
         /\ samples' = Append(samples, sample)
    /\ i' = i + 1
    /\ UNCHANGED << pc, T, m, k, coefficients, perm, accum, pos, x, diamT,
                    numSamples >>
    /\ UNCHANGED normVars

\* the loop is over
TrialsEnd ==
    /\ pc = "trials"
    /\ i = numSamples
    /\ pc' = "done"
    /\ UNCHANGED << T, m, k, coefficients, perm, accum, pos, x, diamT,
                    numSamples, samples, bestVal, best, i >>
    /\ UNCHANGED normVars

\* =================================================== norm_concentration

\* ------------------------------------------------------------ bounds

\* The largest dim.
MaxDim == 2
\* The largest m (vectors per estimate).
MaxCount == 2
\* The largest number of RandomVector objects a run constructs directly.
MaxVecs == 2

\* ------------------------------------------------------------ floats

\* A float: a number of the grid, or nan.
Num(v) == [nan |-> FALSE, v |-> v]
NaN == [nan |-> TRUE, v |-> 0]
NumAdd(a, b) == IF a.nan \/ b.nan THEN NaN ELSE Num(a.v + b.v)
NumMul(a, b) == IF a.nan \/ b.nan THEN NaN ELSE Num(a.v * b.v)

\* np.sqrt(variance): nan (with a warning) below 0
Sqrt(v) == IF v < 0 THEN NaN ELSE Num(CHOOSE r \in 0..v : r * r = v)

\* sum(s), starting from 0
RECURSIVE NumSum(_)
NumSum(s) == IF s = << >> THEN Num(0) ELSE NumAdd(NumSum(Tail(s)), Head(s))

\* ------------------------------------------------------------ inputs

\* Values passed as dim: ints, and values of other types.  A float or a bool
\* compares with 0 by its value; a str does not compare with an int.
DimInputs ==
    { [type |-> "int", val |-> v] : v \in -1..MaxDim }
        \cup { [type |-> "float", val |-> 2], [type |-> "bool", val |-> 1],
               [type |-> "str", val |-> 0] }
DistributionInputs == {"standard_normal", "wald", "uniform"}
MeanInputs == {0, 1}
\* variances: squares, so that np.sqrt stays on the grid, and a negative one
VarianceInputs == {0, 1, 4, -1}
\* sample counts
CountInputs == -1..MaxCount

\* rng.standard_normal(dim) and rng.wald(1, 1, dim): dim values each
StandardNormal(dim) == [1..dim -> {-1, 0, 1}]
Wald(dim) == [1..dim -> {1, 2}]

\* ------------------------------------------------------------ RandomVector

\* What a call left behind: the exception it raised if any, the attributes
\* set on self, whether default_rng() was called, how many random values
\* were drawn, the object returned (a list of at most one object) and the
\* value returned by a method.
Raised(op, exc, attrs, rng) ==
    [op |-> op, status |-> exc, attrs |-> attrs, rng |-> rng, draws |-> 0,
     obj |-> << >>, made |-> << >>, value |-> << >>]
NoCall == Raised("none", "ok", {}, FALSE)

\* mean + np.sqrt(variance) * self.components
Affine(mean, variance, raw) ==
    [j \in 1..Len(raw) |-> NumAdd(Num(mean), NumMul(Sqrt(variance), Num(raw[j])))]

\* __init__ that leaves self.components empty on an unknown distribution
\* and skips the final transform
RandomVectorInitSilent(dim, distribution, mean, variance) ==
    IF dim.type = "str"
    THEN { Raised("RandomVector", "TypeError", {}, FALSE) }
    ELSE IF ~(dim.val > 0 /\ dim.type = "int")
    THEN { Raised("RandomVector", "AssertionError", {}, FALSE) }
    ELSE IF distribution \notin {"standard_normal", "wald"}
    THEN { [op |-> "RandomVector", status |-> "ok", attrs |-> {"dim", "components"},
            rng |-> TRUE, draws |-> 0,
            obj |-> << [dim |-> dim.val, components |-> << >>] >>,
            made |-> << >>, value |-> << >>] }
    ELSE { [op |-> "RandomVector", status |-> "ok", attrs |-> {"dim", "components"},
            rng |-> TRUE, draws |-> dim.val,
            obj |-> << [dim |-> dim.val, components |-> Affine(mean, variance, raw)] >>,
            made |-> << >>, value |-> << >>] :
           raw \in IF distribution = "standard_normal"
                   THEN StandardNormal(dim.val) ELSE Wald(dim.val) }

\* __init__ with "assert dim>0" alone, the generator made first
RandomVectorInitNoTypeCheck(dim, distribution, mean, variance) ==
    IF dim.type = "str"
    THEN { Raised("RandomVector", "TypeError", {}, TRUE) }
    ELSE IF ~(dim.val > 0)
    THEN { Raised("RandomVector", "AssertionError", {}, TRUE) }
    ELSE IF distribution \notin {"standard_normal", "wald"}
    THEN { Raised("RandomVector", "AttributeError", {"dim"}, TRUE) }
    ELSE { [op |-> "RandomVector", status |-> "ok", attrs |-> {"dim", "components"},
            rng |-> TRUE, draws |-> dim.val,
            obj |-> << [dim |-> dim.val, components |-> Affine(mean, variance, raw)] >>,
            made |-> << >>, value |-> << >>] :
           raw \in IF distribution = "standard_normal"
                   THEN StandardNormal(dim.val) ELSE Wald(dim.val) }

\* __init__ drawing dim + 1 values
RandomVectorInitOneMore(dim, distribution, mean, variance) ==
    IF dim.type = "str"
    THEN { Raised("RandomVector", "TypeError", {}, FALSE) }
    ELSE IF ~(dim.val > 0 /\ dim.type = "int")
    THEN { Raised("RandomVector", "AssertionError", {}, FALSE) }
    ELSE IF distribution \notin {"standard_normal", "wald"}
    THEN { Raised("RandomVector", "AttributeError", {"dim"}, TRUE) }
    ELSE { [op |-> "RandomVector", status |-> "ok", attrs |-> {"dim", "components"},
            rng |-> TRUE, draws |-> dim.val + 1,
            obj |-> << [dim |-> dim.val, components |-> Affine(mean, variance, raw)] >>,
            made |-> << >>, value |-> << >>] :
           raw \in IF distribution = "standard_normal"
                   THEN StandardNormal(dim.val + 1) ELSE Wald(dim.val + 1) }

\* RandomVector.__init__(self, dim, distribution, mean, variance): the
\* outcomes of one construction.
\*   assert dim>0 and type(dim) is int   (dim>0 raises TypeError on a str)
\*   self.dim = dim ; rng = np.random.default_rng()
\*   if distribution == 'standard_normal': self.components = ...
\*   if distribution == 'wald':            self.components = ...
\*   self.components = mean+np.sqrt(variance)*self.components
\* The last line reads self.components: AttributeError when no branch set it.
RandomVectorInit(dim, distribution, mean, variance) ==
    IF dim.type = "str"
    THEN { Raised("RandomVector", "TypeError", {}, FALSE) }
    ELSE IF ~(dim.val > 0 /\ dim.type = "int")
    THEN { Raised("RandomVector", "AssertionError", {}, FALSE) }
    ELSE IF distribution \notin {"standard_normal", "wald"}
    THEN { Raised("RandomVector", "AttributeError", {"dim"}, TRUE) }
    ELSE { [op |-> "RandomVector", status |-> "ok", attrs |-> {"dim", "components"},
            rng |-> TRUE, draws |-> dim.val,
            obj |-> << [dim |-> dim.val, components |-> Affine(mean, variance, raw)] >>,
            made |-> << >>, value |-> << >>] :
           raw \in IF distribution = "standard_normal"
                   THEN StandardNormal(dim.val) ELSE Wald(dim.val) }

\* self.components.mean(): the sum over the number of components
MeanOf(v) == [num |-> NumSum(v.components), den |-> Len(v.components)]

\* sum(t**2 for t in self.components)
NormSquaredOf(v) ==
    NumSum([j \in 1..Len(v.components) |-> NumMul(v.components[j], v.components[j])])

\* x = RandomVector(dim, distribution, mean, variance)
NewRandomVector ==
    /\ Len(vecs) < MaxVecs
    /\ \E r \in RandomVectorInit(args.dim, args.distribution, args.mean, args.variance) :
         /\ outcome' = r
         /\ vecs' = vecs \o r.obj
    /\ UNCHANGED << args, mArg >>
    /\ UNCHANGED caraVars

\* x.mean()
CallMean ==
    /\ \E j \in 1..Len(vecs) :
         outcome' = [op |-> "mean", status |-> "ok", attrs |-> {}, rng |-> FALSE,
                     draws |-> 0, obj |-> << vecs[j] >>, made |-> << >>,
                     value |-> << MeanOf(vecs[j]) >>]
    /\ UNCHANGED << args, mArg, vecs >>
    /\ UNCHANGED caraVars

\* x.norm_squared()
CallNormSquared ==
    /\ \E j \in 1..Len(vecs) :
         outcome' = [op |-> "norm_squared", status |-> "ok", attrs |-> {}, rng |-> FALSE,
                     draws |-> 0, obj |-> << vecs[j] >>, made |-> << >>,
                     value |-> << NormSquaredOf(vecs[j]) >>]
    /\ UNCHANGED << args, mArg, vecs >>
    /\ UNCHANGED caraVars

\* ------------------------------------------------ square_norm_expectation

\* frozenset(...) keyed on the components instead of the object
FrozensetByValue(objects) ==
    { [id |-> 0, vec |-> objects[j]] : j \in 1..Len(objects) }

\* frozenset(RandomVector(...) for i in range(m)): RandomVector defines
\* neither __eq__ nor __hash__, so the members are told apart by identity
Frozenset(objects) ==
    { [id |-> j, vec |-> objects[j]] : j \in 1..Len(objects) }

\* sum(x.norm_squared() for x in vectors)
RECURSIVE SumNormsSquared(_)
SumNormsSquared(vectors) ==
    IF vectors = {} THEN Num(0)
    ELSE LET e == CHOOSE e \in vectors : TRUE
         IN  NumAdd(SumNormsSquared(vectors \ {e}), NormSquaredOf(e.vec))

\* the lists of cnt outcomes of successive constructions, up to the first
\* one that raises
RECURSIVE Constructions(_, _, _, _, _)
Constructions(cnt, dim, distribution, mean, variance) ==
    IF cnt <= 0 THEN { << >> }
    ELSE UNION { IF r.status # "ok" THEN { << r >> }
                 ELSE { << r >> \o rest :
                          rest \in Constructions(cnt - 1, dim, distribution, mean, variance) } :
                 r \in RandomVectorInit(dim, distribution, mean, variance) }

\* square_norm_expectation(m, dim, distribution, mean, variance)
SquareNormExpectation ==
    /\ outcome.op = "none"
    /\ \E rs \in Constructions(mArg, args.dim, args.distribution, args.mean, args.variance) :
         LET failed == rs # << >> /\ rs[Len(rs)].status # "ok"
             objects == [j \in 1..Len(rs) |-> rs[j].obj[1]]
         IN  outcome' =
               IF failed
               THEN [rs[Len(rs)] EXCEPT !.op = "square_norm_expectation"]
               ELSE IF mArg = 0
               THEN Raised("square_norm_expectation", "ZeroDivisionError", {}, FALSE)
               ELSE [op |-> "square_norm_expectation", status |-> "ok", attrs |-> {},
                     rng |-> rs # << >>, draws |-> SumSeq([j \in 1..Len(rs) |-> rs[j].draws]),
                     obj |-> << >>, made |-> objects,
                     value |-> << [num |-> SumNormsSquared(Frozenset(objects)),
                                   den |-> mArg] >>]
    /\ UNCHANGED << args, mArg, vecs >>
    /\ UNCHANGED caraVars

\* ------------------------------------------------------- specifications

\* The worksheet after its first cells: T, k and m are set.
CaraInit ==
    /\ pc = "coefficients"
    /\ T \in TInputs
    /\ m = Len(T)
    /\ k \in 1..MaxK
    /\ coefficients = << >>
    /\ perm = << >>
    /\ accum = 0
    /\ pos = 0
    /\ x = << >>
    /\ diamT = 0
    /\ numSamples = 0
    /\ samples = << >>
    /\ bestVal = Fin(0)
    /\ best = None
    /\ i = 0

\* The worksheet is not run.
CaraIdle ==
    /\ pc = "idle"
    /\ T = << >>
    /\ m = 0
    /\ k = 0
    /\ coefficients = << >>
    /\ perm = << >>
    /\ accum = 0
    /\ pos = 0
    /\ x = << >>
    /\ diamT = 0
    /\ numSamples = 0
    /\ samples = << >>
    /\ bestVal = Fin(0)
    /\ best = None
    /\ i = 0

\* norm_concentration after the class and the function are defined: the
\* arguments of the run are chosen, nothing is constructed or called yet.
NormInit ==
    /\ args \in [dim : DimInputs, distribution : DistributionInputs,
                 mean : MeanInputs, variance : VarianceInputs]
    /\ vecs = << >>
    /\ outcome = NoCall

\* norm_concentration is not run.
NormIdle ==
    /\ args = [dim |-> [type |-> "int", val |-> 0], distribution |-> "standard_normal",
               mean |-> 0, variance |-> 1]
    /\ mArg = 0
    /\ vecs = << >>
    /\ outcome = NoCall

Init == CaraInit /\ NormIdle

Next ==
    \/ CoeffInit
    \/ CoeffStep
    \/ CoeffLast
    \/ ConstructX
    \/ ComputeDiam
    \/ TrialInit
    \/ Trial
    \/ TrialsEnd

\* The Approximate Caratheodory worksheet.
Spec == Init /\ [][Next]_vars

InitVector == CaraIdle /\ NormInit /\ mArg = 0

NextVector ==
    \/ NewRandomVector
    \/ CallMean
    \/ CallNormSquared

\* RandomVector: constructions and method calls with the run's arguments.
SpecVector == InitVector /\ [][NextVector]_vars

InitEstimate == CaraIdle /\ NormInit /\ mArg \in CountInputs

NextEstimate == SquareNormExpectation

\* One call of square_norm_expectation with the run's arguments.
SpecEstimate == InitEstimate /\ [][NextEstimate]_vars

\* ------------------------------------------------------- properties

\* the cells after the stick-breaking cell
AfterCoefficients == pc \in {"x", "diam", "trials_init", "trials", "done"}
\* the cells from the trial cell on
InTrials == pc \in {"trials", "done"}

\* C1: once the stick-breaking cell has run there are exactly m coefficients,
\* one per point of T, each >= 0, and they sum to 1 (Den units); for m = 1
\* the single coefficient is 1.
C1_SimplexWeights ==
    AfterCoefficients =>
        /\ Len(coefficients) = m
        /\ Len(coefficients) = Len(T)
        /\ \A j \in 1..m : coefficients[j] >= 0
        /\ SumSeq(coefficients) = Den
        /\ (m = 1 => coefficients = << Den >>)

\* the cell has run on three points and gave each a positive coefficient
C1_Witness ==
    /\ pc = "x"
    /\ m = 3
    /\ \A j \in 1..m : coefficients[j] > 0

\* C2: before the first iteration bestVal is +infinity and best is None;
\* after n >= 1 iterations bestVal is the minimum of the n recorded
\* distances, and best is a draw of k points of T whose distance is bestVal
\* and was recorded.
C2_BestIsMinimum ==
    InTrials =>
        /\ Len(samples) = i
        /\ (i = 0 => bestVal = Inf /\ best = None)
        /\ (i >= 1 =>
              /\ ~bestVal.inf
              /\ bestVal.val = Min({ samples[t] : t \in 1..i })
              /\ Len(best) = k
              /\ \A j \in 1..k : \E d \in Support(coefficients) : best[j] = T[d]
              /\ Distance(best) = bestVal.val)

\* two trials have run, the second one better than the first
C2_Witness ==
    /\ pc = "done"
    /\ i = 2
    /\ samples[2] < samples[1]
    /\ bestVal = Fin(samples[2])

\* the expectation of the distance over the k draws, each index j drawn with
\* probability coefficients[j]/Den: the sum over all k-tuples of the product
\* of the weights times the distance, in units 1/(Den^k * (Den*k)^2)
RECURSIVE ExpectedFrom(_, _)
ExpectedFrom(prefix, j) ==
    IF j > m THEN 0
    ELSE coefficients[j] *
            (IF Len(prefix) + 1 = k
             THEN Distance(Append(prefix, T[j]))
             ELSE ExpectedFrom(Append(prefix, T[j]), 1))
         + ExpectedFrom(prefix, j + 1)

RECURSIVE Power(_, _)
Power(b, e) == IF e = 0 THEN 1 ELSE b * Power(b, e - 1)

\* C3: with x the convex combination of T, the expectation of the squared
\* distance of the mean of k weighted draws to x is at most diam(T)^2 / k,
\* and some k-tuple that can be drawn is within diam(T)^2 / k of x.
C3_ExpectationBound ==
    pc = "trials_init" =>
        /\ ExpectedFrom(<< >>, 1) * k <= diamT * Power(Den, k) * Den * Den * k * k
        /\ \E v \in Choices(T, coefficients, k) :
              Distance(v) * k <= diamT * Den * Den * k * k

\* a case with k = 2, three points, two of them drawn with different
\* weights and a positive expectation
C3_Witness ==
    /\ pc = "trials_init"
    /\ k = 2
    /\ m = 3
    /\ diamT > 1
    /\ \E a, b \in 1..m : coefficients[a] > coefficients[b] /\ coefficients[b] > 0
    /\ ExpectedFrom(<< >>, 1) > 0

\* ||x - p||^2 for a point p, in units 1/Den^2
SquaredDistanceToX(p) == SumSeq([j \in 1..n |-> (x[j] - Den * p[j]) * (x[j] - Den * p[j])])
\* the minimum over the points of T, and over those with a positive coefficient
MinOverT == Min({ SquaredDistanceToX(T[j]) : j \in 1..m })
MinOverDrawable == Min({ SquaredDistanceToX(T[j]) : j \in Support(coefficients) })

\* C10 as stated: with k = 1 every recorded distance is the squared distance
\* of x to a point of T, bestVal >= the minimum over T, bestVal is that
\* minimum exactly when a minimising point has been drawn, and the minimum
\* over T is the best distance a trial can reach.
C10_AsStated ==
    (InTrials /\ k = 1) =>
        /\ \A t \in 1..i : \E j \in 1..m : samples[t] = SquaredDistanceToX(T[j])
        /\ (i >= 1 => bestVal.val >= MinOverT)
        /\ (i >= 1 => (bestVal.val = MinOverT
                         <=> \E t \in 1..i : samples[t] = MinOverT))
        /\ \E v \in Choices(T, coefficients, 1) : Distance(v) = MinOverT

\* C10, amended: with k = 1 every recorded distance is the squared distance
\* of x to a point of T with a positive coefficient; bestVal >= the minimum
\* over T; the best distance a trial can reach is the minimum over the points
\* with a positive coefficient, bestVal equals it exactly when such a
\* minimising point has been drawn, and it is the minimum over T whenever a
\* minimising point of T has a positive coefficient.
C10_BestOverDrawable ==
    (InTrials /\ k = 1) =>
        /\ \A t \in 1..i :
              \E j \in Support(coefficients) : samples[t] = SquaredDistanceToX(T[j])
        /\ (i >= 1 => bestVal.val >= MinOverT)
        /\ (i >= 1 => (bestVal.val = MinOverDrawable
                         <=> \E t \in 1..i : samples[t] = MinOverDrawable))
        /\ \E v \in Choices(T, coefficients, 1) : Distance(v) = MinOverDrawable
        /\ \A v \in Choices(T, coefficients, 1) : Distance(v) >= MinOverDrawable
        /\ ((\E j \in Support(coefficients) : SquaredDistanceToX(T[j]) = MinOverT)
              => MinOverDrawable = MinOverT)

\* k = 1, two trials: the first missed the nearest point, the second drew it
C10_Witness ==
    /\ pc = "done"
    /\ k = 1
    /\ i = 2
    /\ samples[1] > MinOverT
    /\ samples[2] = MinOverT
    /\ bestVal = Fin(MinOverT)

\* ---------------------------------------- properties of norm_concentration

\* dim is a positive int; the distribution is one __init__ knows
ValidDim(d) == d.type = "int" /\ d.val > 0
SupportedDistribution(name) == name \in {"standard_normal", "wald"}
\* the last call was the constructor / square_norm_expectation
Constructed == outcome.op = "RandomVector"
Estimated == outcome.op = "square_norm_expectation"

\* C4: every RandomVector constructed (the construction succeeds only with a
\* positive int dim and a supported distribution) has len(components) = dim
\* = the dim asked for, whatever the mean and the variance, also after any
\* number of mean() and norm_squared() calls.
C4_ComponentsLength ==
    /\ \A j \in 1..Len(vecs) :
          /\ Len(vecs[j].components) = vecs[j].dim
          /\ vecs[j].dim = args.dim.val
    /\ (vecs # << >> => ValidDim(args.dim) /\ SupportedDistribution(args.distribution))
    /\ (Constructed /\ ValidDim(args.dim) /\ SupportedDistribution(args.distribution)
          => /\ outcome.status = "ok"
             /\ Len(outcome.obj) = 1
             /\ Len(outcome.obj[1].components) = args.dim.val)
    /\ (outcome.op \in {"mean", "norm_squared"}
          => Len(outcome.obj[1].components) = outcome.obj[1].dim)

\* two wald vectors of dim 2 with mean 1 and variance 4, and norm_squared()
\* was called on one
C4_Witness ==
    /\ Len(vecs) = 2
    /\ args.dim.val = 2
    /\ args.distribution = "wald"
    /\ args.mean = 1
    /\ args.variance = 4
    /\ outcome.op = "norm_squared"

\* C5: a construction with a dim that is no positive int raises before the
\* generator is made and before any draw; no attribute is set and no object
\* is returned.
C5_InvalidDimRaises ==
    ~ValidDim(args.dim) =>
        /\ vecs = << >>
        /\ (Constructed =>
              /\ outcome.status # "ok"
              /\ ~outcome.rng
              /\ outcome.draws = 0
              /\ outcome.attrs = {}
              /\ outcome.obj = << >>)

\* RandomVector(2.0) was called and raised
C5_Witness ==
    /\ Constructed
    /\ args.dim = [type |-> "float", val |-> 2]
    /\ outcome.status = "AssertionError"

\* C6 as stated: with a valid dim and a distribution name that is neither
\* 'standard_normal' nor 'wald' the construction raises nothing and returns
\* a vector with no components.
C6_AsStated ==
    (Constructed /\ ValidDim(args.dim) /\ ~SupportedDistribution(args.distribution)) =>
        /\ outcome.status = "ok"
        /\ Len(outcome.obj) = 1
        /\ outcome.obj[1].components = << >>

\* C6, amended: with a valid dim and such a distribution name the
\* construction raises AttributeError, once dim is set and the generator
\* made, before any draw; no object is returned.
C6_UnknownDistributionRaises ==
    (ValidDim(args.dim) /\ ~SupportedDistribution(args.distribution)) =>
        /\ vecs = << >>
        /\ (Constructed =>
              /\ outcome.status = "AttributeError"
              /\ outcome.attrs = {"dim"}
              /\ outcome.rng
              /\ outcome.draws = 0
              /\ outcome.obj = << >>)

\* RandomVector(2, 'uniform') was called and raised
C6_Witness ==
    /\ Constructed
    /\ args.dim = [type |-> "int", val |-> 2]
    /\ args.distribution = "uniform"
    /\ outcome.status = "AttributeError"

\* C7: square_norm_expectation with m <= 0 raises and returns no estimate,
\* whatever dim and the distribution.
C7_NonPositiveCountRaises ==
    (Estimated /\ mArg <= 0) =>
        /\ outcome.status # "ok"
        /\ outcome.value = << >>

\* what C8 says of a call: it succeeded, constructed exactly m vectors of the
\* dim asked for, drew m * dim values, and returned the sum of the m values
\* norm_squared() over m
MeanOfAllNorms ==
    /\ outcome.status = "ok"
    /\ Len(outcome.made) = mArg
    /\ \A j \in 1..Len(outcome.made) :
          /\ outcome.made[j].dim = args.dim.val
          /\ Len(outcome.made[j].components) = args.dim.val
    /\ outcome.draws = mArg * args.dim.val
    /\ outcome.value =
          << [num |-> NumSum([j \in 1..Len(outcome.made) |-> NormSquaredOf(outcome.made[j])]),
              den |-> mArg] >>

\* C8 as stated: for every m >= 1 and valid dim.
C8_AsStated ==
    (Estimated /\ mArg >= 1 /\ ValidDim(args.dim)) => MeanOfAllNorms

\* C8, amended: for every m >= 1, valid dim and supported distribution the
\* call constructs exactly m vectors and returns the sum of all m values
\* norm_squared() over m: the frozenset drops no vector and counts none
\* twice, also when two vectors have the same components.
C8_MeanOfAllNorms ==
    (Estimated /\ mArg >= 1 /\ ValidDim(args.dim)
        /\ SupportedDistribution(args.distribution)) => MeanOfAllNorms

\* m = 2 and the two vectors have the same components, with a norm > 0
C8_Witness ==
    /\ Estimated
    /\ mArg = 2
    /\ outcome.status = "ok"
    /\ outcome.made[1] = outcome.made[2]
    /\ args.dim.val = 2
    /\ ~NormSquaredOf(outcome.made[1]).nan
    /\ NormSquaredOf(outcome.made[1]).v > 0

\* C9: two constructions with the same (dim, distribution, mean, variance)
\* under the same fixed seed have the same components.  __init__ takes no
\* seed and np.random.default_rng() is seeded from fresh entropy on every
\* call, so a run's constructions are all made under whatever seed the
\* caller fixed.
C9_SameSeedSameComponents ==
    \A a, b \in 1..Len(vecs) : vecs[a].components = vecs[b].components

\* ------------------------------------------- properties of the trial loop

\* the loop is at most numSamples iterations in, has recorded one distance
\* per iteration, the latest being the distance of a sample the draw can
\* produce, can go on while i < numSamples and has ended only at
\* i = numSamples
TrialLoopState ==
    InTrials =>
        /\ numSamples >= 1
        /\ i \in 0..numSamples
        /\ Len(samples) = i
        /\ (pc = "trials" /\ i >= 1 =>
              \E f \in ChoiceIndices(coefficients, k) :
                  samples[i] = Distance([j \in 1..k |-> T[f[j]]]))
        /\ (pc = "trials" /\ i < numSamples => Support(coefficients) # {})
        /\ (pc = "done" => i = numSamples /\ Len(samples) = numSamples)

\* an iteration is the next one in order and appends its distance after the
\* distances recorded before; leaving the loop records nothing
TrialLoopStep ==
    /\ (pc = "trials" /\ pc' = "trials" =>
          /\ i' = i + 1
          /\ Len(samples') = i'
          /\ SubSeq(samples', 1, i) = samples)
    /\ (pc = "trials" /\ pc' = "done" => i = numSamples /\ UNCHANGED << samples, i >>)

\* C11: for every numSamples >= 1 the trial loop ends, after exactly
\* numSamples iterations whatever is drawn, and samples then holds exactly
\* numSamples distances, the i-th one recorded by the i-th iteration.
\* Termination is stated by its variant: every iteration adds 1 to i, i never
\* passes numSamples, no draw blocks the next iteration, and the loop is
\* left only at i = numSamples.
C11_TrialLoopTerminates ==
    /\ []TrialLoopState
    /\ [][TrialLoopStep]_vars

\* the loop has ended after two iterations that recorded different distances
C11_Witness ==
    /\ pc = "done"
    /\ numSamples = 2
    /\ Len(samples) = 2
    /\ samples[1] # samples[2]

\* ------------------------------------------- properties of the statistics

\* the last call was x.mean() / x.norm_squared()
CalledMean == outcome.op = "mean"
CalledNormSquared == outcome.op = "norm_squared"

\* sum over the components c of c*c, from the first component on
RECURSIVE SumOfSquares(_, _)
SumOfSquares(c, j) ==
    IF j = 0 THEN Num(0) ELSE NumAdd(SumOfSquares(c, j - 1), NumMul(c[j], c[j]))

\* C12: for every constructed RandomVector, norm_squared() returns the sum
\* over its components c of c*c, a number >= 0 that is 0 only when every
\* component is 0, and mean() returns the sum of the components over dim;
\* the vector called is one of the constructed ones, as it was constructed.
C12_StatisticsExact ==
    /\ (CalledNormSquared =>
          /\ outcome.status = "ok"
          /\ outcome.obj[1] \in { vecs[j] : j \in 1..Len(vecs) }
          /\ outcome.value[1] =
                SumOfSquares(outcome.obj[1].components, outcome.obj[1].dim)
          /\ ~outcome.value[1].nan
          /\ outcome.value[1].v >= 0
          /\ (outcome.value[1].v = 0 =>
                \A j \in 1..outcome.obj[1].dim :
                    outcome.obj[1].components[j] = Num(0)))
    /\ (CalledMean =>
          /\ outcome.status = "ok"
          /\ outcome.obj[1] \in { vecs[j] : j \in 1..Len(vecs) }
          /\ outcome.value[1].den = outcome.obj[1].dim
          /\ outcome.value[1].num =
                NumSum([j \in 1..outcome.obj[1].dim |-> outcome.obj[1].components[j]]))

\* a step of the model that is one iteration of the trial loop
TrialStep == pc = "trials" /\ pc' = "trials" /\ i' # i

\* C13 as stated: an iteration writes nothing that outlives it but bestVal
\* and best.
C13_AsStated ==
    [][TrialStep =>
          UNCHANGED << T, m, k, coefficients, perm, accum, pos, x, diamT,
                       numSamples, samples, i >>]_vars

\* C13: every iteration leaves the point set T, the coefficients, the target
\* x and k (and m, perm, accum, diamT, numSamples) unchanged; what it writes
\* of the state carried from one trial to the next is the pair
\* (bestVal, best), the list samples, which gets the trial's distance
\* appended and keeps its earlier entries, and the loop counter i.
C13_TrialFrame ==
    [][TrialStep =>
          /\ UNCHANGED << T, m, k, coefficients, perm, accum, pos, x, diamT,
                          numSamples >>
          /\ UNCHANGED normVars
          /\ samples' # samples
          /\ SubSeq(samples', 1, Len(samples)) = samples
          /\ Len(samples') = Len(samples) + 1
          /\ i' = i + 1]_vars

\* the first of two iterations has run and has written best, bestVal and
\* samples
C13_Witness ==
    /\ pc = "trials"
    /\ numSamples = 2
    /\ i = 1
    /\ Len(samples) = 1
    /\ bestVal = Fin(samples[1])
    /\ best # None

\* ------------------------------------- properties of the stick-breaking loop

\* inside the loop: accum is in [0, 1] and is what the assigned coefficients
\* leave of 1, perm holds every index once, and the indices of perm from
\* position pos on have not been assigned yet
StickState ==
    pc = "stick" =>
        /\ 0 <= accum /\ accum <= Den
        /\ accum + SumSeq(coefficients) = Den
        /\ Len(coefficients) = m
        /\ \A j \in 1..m : Cardinality({ q \in 1..m : perm[q] = j }) = 1
        /\ pos \in 1..m
        /\ \A q \in pos..m : coefficients[perm[q]] = 0

\* a draw assigns the index at position pos of perm, and no other, a value
\* of [0, accum] and takes it off accum; the statement after the loop gives
\* the last index of perm, and no other, the accum that is left
StickStep ==
    /\ (pc = "stick" /\ pc' = "stick" /\ pos' # pos =>
          /\ pos < m /\ pos' = pos + 1
          /\ perm' = perm
          /\ coefficients'[perm[pos]] \in 0..accum
          /\ accum' = accum - coefficients'[perm[pos]]
          /\ \A j \in 1..m : j # perm[pos] => coefficients'[j] = coefficients[j])
    /\ (pc = "stick" /\ pc' # "stick" =>
          /\ pos = m
          /\ perm' = perm /\ accum' = accum
          /\ coefficients'[perm[m]] = accum
          /\ \A j \in 1..m : j # perm[m] => coefficients'[j] = coefficients[j])

\* C14: during the stick-breaking loop, after every step 0 <= accum <= 1 and
\* accum plus the coefficients assigned so far is 1 (Den units); each index
\* of the permutation is assigned exactly once, every drawn coefficient is
\* in [0, accum before the draw], and the last index of the permutation
\* gets exactly the accum that is left.
C14_StickBreaking ==
    /\ []StickState
    /\ [][StickStep]_vars

\* two draws on three points, each positive, have left a positive accum for
\* the last index
C14_Witness ==
    /\ pc = "stick"
    /\ m = 3
    /\ pos = 3
    /\ coefficients[perm[1]] > 0
    /\ coefficients[perm[2]] > 0
    /\ accum > 0

\* ------------------------------------------------ properties of the target

\* the cells after the target cell
AfterX == pc \in {"diam", "trials_init", "trials", "done"}

\* the origin or a unit vector
UnitOrOrigin(p) == (\A j \in 1..Len(p) : p[j] \in {0, 1}) /\ SumSeq(p) <= 1

\* C15: once the target cell has run, x has length n and its j-th component
\* is the sum over the points of coefficients[i] * T[i][j]; the coefficients
\* being >= 0 with sum 1 (Den units), x is a convex combination of T, every
\* component lying between the least and the greatest of the points'; and
\* when T is made of unit vectors and the origin, every component of x is
\* >= 0 and the components sum to at most 1.
C15_TargetIsConvexCombination ==
    AfterX =>
        /\ Len(x) = n
        /\ \A j \in 1..n :
              x[j] = SumSeq([p \in 1..m |-> coefficients[p] * T[p][j]])
        /\ \A p \in 1..m : coefficients[p] >= 0
        /\ SumSeq(coefficients) = Den
        /\ \A j \in 1..n :
              /\ Den * Min({ T[p][j] : p \in 1..m }) <= x[j]
              /\ x[j] <= Den * Max({ T[p][j] : p \in 1..m })
        /\ ((\A p \in 1..m : UnitOrOrigin(T[p])) =>
              /\ \A j \in 1..n : x[j] >= 0
              /\ SumSeq(x) <= Den)

\* the target of the origin and two unit vectors, each with a positive
\* coefficient
C15_Witness ==
    /\ pc = "diam"
    /\ T = << Points[1], Points[2], Points[3] >>
    /\ \A p \in 1..m : coefficients[p] > 0
    /\ x[1] > 0 /\ x[2] > 0 /\ x[3] = 0
    /\ SumSeq(x) < Den

\* ------------------------------------------- properties of the running best

\* bestVal after the step is not above bestVal before it (+infinity above all)
BestValNotAbove == bestVal.inf \/ (~bestVal'.inf /\ bestVal'.val <= bestVal.val)

\* C16: from one iteration to the next bestVal never increases, and
\* (bestVal, best) change only in an iteration whose distance is strictly
\* below the bestVal before it, to that distance and a draw that has it; an
\* iteration with an equal (or a greater) distance leaves both as they are,
\* so best stays the draw of the earliest trial that reached the minimum.
C16_BestNeverIncreases ==
    [][TrialStep =>
          /\ BestValNotAbove
          /\ (Less(samples'[i'], bestVal) =>
                /\ bestVal' = Fin(samples'[i'])
                /\ bestVal' # bestVal
                /\ Distance(best') = samples'[i'])
          /\ (~Less(samples'[i'], bestVal) => UNCHANGED << bestVal, best >>)
          /\ (bestVal = Fin(samples'[i']) => UNCHANGED << bestVal, best >>)]_vars

\* the second of two iterations came to the distance of the first, where
\* more than one point can be drawn
C16_Witness ==
    /\ pc = "trials"
    /\ i = 2
    /\ samples[2] = samples[1]
    /\ bestVal = Fin(samples[1])
    /\ Cardinality(Support(coefficients)) >= 2

====
